---- MODULE Spec2Model ----
(***************************************************************************)
(* throque: a function decorator limiting how many invocations of a        *)
(* function are active at once (lib/throque.js), its two-stack Queue       *)
(* (lib/Queue.js) and the state they keep.                                 *)
(*                                                                         *)
(* One JavaScript job or microtask is one step: a call of the throttled    *)
(* function runs addToQueueAndWait and the synchronous part of execQueue   *)
(* to its await; the settlement of the promise of functionToThrottle is a  *)
(* step of the environment; the continuation of execQueue after its await  *)
(* is a microtask, run in the order the awaited promises settled.          *)
(***************************************************************************)
EXTENDS Integers, Sequences, FiniteSets

\* ------------------------------------------------------------- bounds
NumCalls == 3       \* calls of throttled functions made in one behaviour
MaxCeiling == 2     \* largest maxConcurrentCalls passed to throttleAndQueue
MaxItems == 4       \* items enqueued in one behaviour of the Queue alone
MaxBatch == 2       \* largest number of values of one enqueue(...values)
MaxCallbacks == 2   \* times functionToPromisify invokes its callback
MaxResults == 2     \* largest number of values passed after err

\* The throttled functions built by throttleAndQueue: two, f and g.
Wrappers == {1, 2}
Ceilings == 1..MaxCeiling
CallIds == 1..NumCalls

\* What functionToThrottle does with the arguments of a call: return a
\* promise, return a value that is no promise, or throw.
Args == {"promise", "value", "throw"}

\* How the promise of functionToThrottle may settle.
Outcomes == {[st |-> "resolved", val |-> "42"], [st |-> "rejected", val |-> "E"]}

NotYet == [st |-> "none", val |-> "none"]
Pending == [st |-> "pending", val |-> "none"]

\* The Error that callWhenReady throws (throque.js:108-110).
UsageError == "functionToThrottle does not return a promise"

\* `let maxCalls;`: no value until the first throttleAndQueue.
undefinedMaxCalls == 0 - 1

VARIABLES
  callQueue,           \* throque.js:15, a Queue of {callWhenReady, resolve, reject}
  activeCalls,         \* throque.js:17
  maxCalls,            \* throque.js:18
  maxConcurrentCalls,  \* wrapper -> the ceiling it was built with (0: not built)
  nCalls,              \* calls made so far; call c is the c-th call made
  caller,              \* call -> the wrapper called (0: call not made)
  args,                \* call -> the arguments passed ("none": call not made)
  waited,              \* the calls still queued when throttledFunction returned
  inner,               \* call -> state of the promise functionToThrottle returned
  outer,               \* call -> state of the promise throttledFunction returned
  invoked,             \* call -> how many times functionToThrottle ran for it
  settles,             \* call -> how many times its resolve or reject was called
  started,             \* the calls in the order functionToThrottle was invoked
  frames,              \* execQueue activations suspended at their await
  jobs,                \* continuations of execQueue ready to run, oldest first
  q,                   \* a Queue used on its own
  enqLog,              \* every item given to q.enqueue, in order
  retLog,              \* every value q.enqueue returned, in order
  deqLog,              \* every result of q.dequeue, in order
  promise,             \* promisify.js:16, the promise of one promisified call
  running,             \* "idle", "running": functionToPromisify has not returned,
                       \* "returned" or "threw"
  nCallbacks,          \* times the callback of promisify.js:17 was invoked
  firstCallback,       \* the arguments of its first invocation
  lastCallback,        \* the arguments of its latest invocation
  thrownAfter          \* nCallbacks when functionToPromisify threw (-1: it did not)

throqueVars == <<callQueue, activeCalls, maxCalls, maxConcurrentCalls, nCalls,
                 caller, args, waited, inner, outer, invoked, settles, started,
                 frames, jobs>>
queueVars == <<q, enqLog, retLog, deqLog>>
promisifyVars == <<promise, running, nCallbacks, firstCallback, lastCallback,
                   thrownAfter>>
vars == <<throqueVars, queueVars, promisifyVars>>

\* ------------------------------------------------------------- Queue.js
\* dequeue() of an empty Queue returns undefined; a value x is <<x>>.
undefined == <<>>

\* constructor()
Queue == [stack1 |-> <<>>, stack2 |-> <<>>, length |-> 0]

\* A mutant of enqueue: length goes up by one whatever the number of values.
enqueueCountsOne(qu, values) ==
  [queue |-> [qu EXCEPT !.stack1 = @ \o values, !.length = @ + 1],
   value |-> qu.length + 1]

\* A mutant of enqueue: the values go to the bottom of stack1.
enqueueFront(qu, values) ==
  LET len == qu.length + Len(values)
  IN [queue |-> [qu EXCEPT !.stack1 = values \o @, !.length = len],
      value |-> len]

\* enqueue(...values): the queue after it and the value returned.
enqueue(qu, values) ==
  LET len == qu.length + Len(values)
  IN [queue |-> [qu EXCEPT !.stack1 = @ \o values, !.length = len],
      value |-> len]

\* A mutant of transfer: stack1 is moved onto stack2 without being reversed.
transferInOrder(s1, s2) == [stack1 |-> <<>>, stack2 |-> s2 \o s1]

\* A mutant of transfer: one item is moved, the loop does not go on.
transferOne(s1, s2) ==
  IF Len(s1) > 0
  THEN [stack1 |-> SubSeq(s1, 1, Len(s1) - 1), stack2 |-> Append(s2, s1[Len(s1)])]
  ELSE [stack1 |-> s1, stack2 |-> s2]

\* while (stack1.length > 0) stack2.push(stack1.pop())
RECURSIVE transfer(_, _)
transfer(s1, s2) ==
  IF Len(s1) > 0
  THEN transfer(SubSeq(s1, 1, Len(s1) - 1), Append(s2, s1[Len(s1)]))
  ELSE [stack1 |-> s1, stack2 |-> s2]

\* A mutant of dequeue: it pops the newest item of stack1.
dequeueNewest(qu) ==
  IF qu.length = 0 THEN [queue |-> qu, value |-> undefined]
  ELSE IF Len(qu.stack1) > 0
  THEN [queue |-> [qu EXCEPT !.stack1 = SubSeq(@, 1, Len(@) - 1),
                             !.length = @ - 1],
        value |-> <<qu.stack1[Len(qu.stack1)]>>]
  ELSE [queue |-> [qu EXCEPT !.stack2 = SubSeq(@, 1, Len(@) - 1),
                             !.length = @ - 1],
        value |-> <<qu.stack2[Len(qu.stack2)]>>]

\* A mutant of dequeue: no check of length; pop() of an empty stack2 gives
\* undefined and length still goes down.
dequeueNoGuard(qu) ==
  LET t == IF Len(qu.stack2) = 0
           THEN transfer(qu.stack1, qu.stack2)
           ELSE [stack1 |-> qu.stack1, stack2 |-> qu.stack2]
  IN IF Len(t.stack2) = 0
     THEN [queue |-> [qu EXCEPT !.length = @ - 1], value |-> undefined]
     ELSE [queue |-> [stack1 |-> t.stack1,
                      stack2 |-> SubSeq(t.stack2, 1, Len(t.stack2) - 1),
                      length |-> qu.length - 1],
           value |-> <<t.stack2[Len(t.stack2)]>>]

\* dequeue(): the queue after it and the value returned.
dequeue(qu) ==
  IF qu.length = 0 THEN [queue |-> qu, value |-> undefined]
  ELSE LET t == IF Len(qu.stack2) = 0
                THEN transfer(qu.stack1, qu.stack2)
                ELSE [stack1 |-> qu.stack1, stack2 |-> qu.stack2]
       IN [queue |-> [stack1 |-> t.stack1,
                      stack2 |-> SubSeq(t.stack2, 1, Len(t.stack2) - 1),
                      length |-> qu.length - 1],
           value |-> <<t.stack2[Len(t.stack2)]>>]

\* ------------------------------------------------------------- promisify.js
\* What an error-first callback is given as err (promisify.js:3-5): null,
\* undefined, the empty string, an Error or a message.
Errs == {"null", "undefined", "''", "Error", "'msg'"}

\* The values JavaScript takes as false in `if (err)`.
Falsy == {"null", "undefined", "''", "0", "false", "NaN"}

\* The values passed after err: up to MaxResults of them.
Results == {"x", "y"}
Datas == UNION {[1..n -> Results] : n \in 0..MaxResults}

\* A JavaScript value: one value v, the array of some values, or undefined.
value(v) == [kind |-> "value", items |-> <<v>>]
array(vs) == [kind |-> "array", items |-> vs]
undefinedValue == [kind |-> "undefined", items |-> <<>>]
NoValue == [kind |-> "none", items |-> <<>>]

NoPromise == [st |-> "none", val |-> NoValue]
NoCallback == [err |-> "none", data |-> <<>>]

\* data[0]
first(data) == IF Len(data) >= 1 THEN value(data[1]) ELSE undefinedValue

\* A mutant of settle: a settled promise is settled again.
settleAgain(p, st, v) == [st |-> st, val |-> v]

\* resolve(v) or reject(v) of promise p: a settled promise stays as it is.
settle(p, st, v) ==
  IF p.st = "pending" THEN [st |-> st, val |-> v] ELSE p

\* A mutant of promisifyCallback: it resolves with data whatever its length.
promisifyCallbackArray(p, err, data) ==
  IF err \notin Falsy THEN settle(p, "rejected", value(err))
  ELSE settle(p, "resolved", array(data))

\* (err, ...data) => { if (err) reject(err); else if (data.length > 1)
\* resolve(data); else resolve(data[0]); }: promise p after it.
promisifyCallback(p, err, data) ==
  IF err \notin Falsy THEN settle(p, "rejected", value(err))
  ELSE IF Len(data) > 1 THEN settle(p, "resolved", array(data))
  ELSE settle(p, "resolved", first(data))

\* ------------------------------------------------------------- throque.js
\* activeCalls >= maxCalls; a comparison with undefined is false.
atCeiling(active, max) == max # undefinedMaxCalls /\ active >= max

\* callWhenReady(): functionToThrottle(...args) and the check of what it
\* returned. "await": a promise was returned; "throw": an error was thrown.
callWhenReady(cwr) ==
  CASE cwr.args = "promise" -> [how |-> "await", val |-> "none"]
    [] cwr.args = "value" -> [how |-> "throw", val |-> UsageError]
    [] cwr.args = "throw" -> [how |-> "throw", val |-> "E"]

\* The resolve and the reject function of the promise of call c.
resolveOf(c) == [promise |-> c, to |-> "resolved"]
rejectOf(c) == [promise |-> c, to |-> "rejected"]

\* fn(v), fn a resolve or a reject function: a settled promise stays as it is.
apply(out, fn, v) ==
  IF out[fn.promise].st = "pending"
  THEN [out EXCEPT ![fn.promise] = [st |-> fn.to, val |-> v]]
  ELSE out

\* The part of the state execQueue reads and writes.
Machine == [callQueue |-> callQueue, activeCalls |-> activeCalls, inner |-> inner,
            outer |-> outer, invoked |-> invoked, settles |-> settles,
            started |-> started, frames |-> frames]

\* resolve(v) or reject(v) called in execQueue: fn(v), counted.
settleOuter(m, fn, v) ==
  [m EXCEPT !.outer = apply(@, fn, v), !.settles[fn.promise] = @ + 1]

RECURSIVE execQueue(_)

\* A mutant of finish: activeCalls is not decremented.
finishKeepSlot(m) == execQueue(m)

\* A mutant of finish: execQueue is not called again.
finishNoDrain(m) == [m EXCEPT !.activeCalls = @ - 1]

\* activeCalls -= 1; execQueue();
finish(m) == execQueue([m EXCEPT !.activeCalls = @ - 1])

\* A mutant of catchReject: the error is dropped.
catchIgnore(m, nextCall, e) == m

\* catch (e) { reject(e); }
catchReject(m, nextCall, e) == settleOuter(m, nextCall.reject, e)

\* execQueue(), from its entry to its first await or its return.
execQueueFrom(m) ==
  IF m.callQueue.length = 0 THEN m
  ELSE IF atCeiling(m.activeCalls, maxCalls) THEN m
  ELSE LET d == dequeue(m.callQueue)
           nextCall == d.value[1]
           id == nextCall.callWhenReady.id
           r == callWhenReady(nextCall.callWhenReady)
           m1 == [m EXCEPT !.callQueue = d.queue,
                           !.activeCalls = @ + 1,
                           !.invoked[id] = @ + 1,
                           !.started = Append(@, id)]
       IN IF r.how = "await"
          THEN [m1 EXCEPT !.inner[id] = Pending,
                          !.frames = @ \cup {[awaits |-> id,
                                              resolve |-> nextCall.resolve,
                                              reject |-> nextCall.reject]}]
          ELSE finish(catchReject(m1, nextCall, r.val))

\* execQueue() entered in state m (m is evaluated once, then used as a value).
execQueue(m) == CHOOSE after \in {execQueueFrom(s) : s \in {m}} : TRUE

\* A mutant of resume: after resolve(fttResolveValue), reject is called too.
resumeBoth(m, fr) ==
  LET res == m.inner[fr.awaits]
  IN IF res.st = "resolved"
     THEN finish(catchReject(settleOuter(m, fr.resolve, res.val), fr, res.val))
     ELSE finish(catchReject(m, fr, res.val))

\* execQueue() after its await: resolve(fttResolveValue) or reject(e), then
\* activeCalls -= 1 and execQueue().
resume(m, fr) ==
  LET res == m.inner[fr.awaits]
  IN IF res.st = "resolved"
     THEN finish(settleOuter(m, fr.resolve, res.val))
     ELSE finish(catchReject(m, fr, res.val))

\* A mutant of addToQueueAndWait: reject is the resolve function.
addToQueueAndWaitResolveOnly(m, cwr, c) ==
  execQueue([m EXCEPT
    !.outer[c] = Pending,
    !.callQueue = enqueue(@, <<[callWhenReady |-> cwr, resolve |-> resolveOf(c),
                                reject |-> resolveOf(c)]>>).queue])

\* addToQueueAndWait(callWhenReady): the new promise c, enqueue, execQueue().
addToQueueAndWait(m, cwr, c) ==
  execQueue([m EXCEPT
    !.outer[c] = Pending,
    !.callQueue = enqueue(@, <<[callWhenReady |-> cwr, resolve |-> resolveOf(c),
                                reject |-> rejectOf(c)]>>).queue])

Install(m) ==
  /\ callQueue' = m.callQueue
  /\ activeCalls' = m.activeCalls
  /\ inner' = m.inner
  /\ outer' = m.outer
  /\ invoked' = m.invoked
  /\ settles' = m.settles
  /\ started' = m.started
  /\ frames' = m.frames

\* throttleAndQueue(functionToThrottle, maxConcurrentCalls): wrapper w is built.
\* The wrappers are numbered in the order they are built.
throttleAndQueue(w, k) ==
  /\ maxConcurrentCalls[w] = 0
  /\ \A v \in Wrappers : v < w => maxConcurrentCalls[v] # 0
  /\ maxCalls' = k
  /\ maxConcurrentCalls' = [maxConcurrentCalls EXCEPT ![w] = k]
  /\ UNCHANGED <<callQueue, activeCalls, nCalls, caller, args, waited, inner,
                 outer, invoked, settles, started, frames, jobs>>
  /\ UNCHANGED queueVars
  /\ UNCHANGED promisifyVars

\* throttledFunction(...args) of wrapper w; a are the arguments.
throttledFunction(w, a) ==
  /\ maxConcurrentCalls[w] # 0
  /\ nCalls < NumCalls
  /\ \E c \in {nCalls + 1} :
     \E m \in {addToQueueAndWait(Machine, [id |-> c, fn |-> w, args |-> a], c)} :
        /\ nCalls' = c
        /\ caller' = [caller EXCEPT ![c] = w]
        /\ args' = [args EXCEPT ![c] = a]
        /\ waited' = IF m.invoked[c] = 0 THEN waited \cup {c} ELSE waited
        /\ Install(m)
  /\ UNCHANGED <<maxCalls, maxConcurrentCalls, jobs>>
  /\ UNCHANGED queueVars
  /\ UNCHANGED promisifyVars

\* The promise functionToThrottle returned for call c settles.
Settle(c, res) ==
  /\ inner[c].st = "pending"
  /\ inner' = [inner EXCEPT ![c] = res]
  /\ \E fr \in frames :
       /\ fr.awaits = c
       /\ frames' = frames \ {fr}
       /\ jobs' = Append(jobs, fr)
  /\ UNCHANGED <<callQueue, activeCalls, maxCalls, maxConcurrentCalls, nCalls,
                 caller, args, waited, outer, invoked, settles, started>>
  /\ UNCHANGED queueVars
  /\ UNCHANGED promisifyVars

\* The oldest ready continuation of execQueue runs.
Resume ==
  /\ jobs # <<>>
  /\ jobs' = Tail(jobs)
  /\ \E m \in {resume(Machine, Head(jobs))} : Install(m)
  /\ UNCHANGED <<maxCalls, maxConcurrentCalls, nCalls, caller, args, waited>>
  /\ UNCHANGED queueVars
  /\ UNCHANGED promisifyVars

ThroqueInit ==
  /\ callQueue = Queue
  /\ activeCalls = 0
  /\ maxCalls = undefinedMaxCalls
  /\ maxConcurrentCalls = [w \in Wrappers |-> 0]
  /\ nCalls = 0
  /\ caller = [c \in CallIds |-> 0]
  /\ args = [c \in CallIds |-> "none"]
  /\ waited = {}
  /\ inner = [c \in CallIds |-> NotYet]
  /\ outer = [c \in CallIds |-> NotYet]
  /\ invoked = [c \in CallIds |-> 0]
  /\ settles = [c \in CallIds |-> 0]
  /\ started = <<>>
  /\ frames = {}
  /\ jobs = <<>>

QueueInit ==
  /\ q = Queue
  /\ enqLog = <<>>
  /\ retLog = <<>>
  /\ deqLog = <<>>

PromisifyInit ==
  /\ promise = NoPromise
  /\ running = "idle"
  /\ nCallbacks = 0
  /\ firstCallback = NoCallback
  /\ lastCallback = NoCallback
  /\ thrownAfter = 0 - 1

Init == ThroqueInit /\ QueueInit /\ PromisifyInit

Next ==
  \/ \E w \in Wrappers, k \in Ceilings : throttleAndQueue(w, k)
  \/ \E w \in Wrappers, a \in Args : throttledFunction(w, a)
  \/ \E c \in CallIds, res \in Outcomes : Settle(c, res)
  \/ Resume

Spec == Init /\ [][Next]_vars

SettleOf(c) == \E res \in Outcomes : Settle(c, res)

\* Every promise of functionToThrottle settles, every microtask runs.
FairSpec ==
  /\ Spec
  /\ \A c \in CallIds : WF_vars(SettleOf(c))
  /\ WF_vars(Resume)

\* ------------------------------------------------------------- the Queue alone
\* The items of one enqueue(...values): the next n fresh items.
Fresh(n) == [i \in 1..n |-> Len(enqLog) + i]

QEnqueue(n) ==
  /\ Len(enqLog) + n <= MaxItems
  /\ Len(retLog) < MaxItems
  /\ q' = enqueue(q, Fresh(n)).queue
  /\ enqLog' = enqLog \o Fresh(n)
  /\ retLog' = Append(retLog, enqueue(q, Fresh(n)).value)
  /\ UNCHANGED deqLog
  /\ UNCHANGED throqueVars
  /\ UNCHANGED promisifyVars

QDequeue ==
  /\ Len(deqLog) < MaxItems + 2
  /\ q' = dequeue(q).queue
  /\ deqLog' = Append(deqLog, dequeue(q).value)
  /\ UNCHANGED <<enqLog, retLog>>
  /\ UNCHANGED throqueVars
  /\ UNCHANGED promisifyVars

QNext ==
  \/ \E n \in 0..MaxBatch : QEnqueue(n)
  \/ QDequeue

QSpec == Init /\ [][QNext]_vars

\* ------------------------------------------------------------- promisify alone
\* The function promisify returned is called: new Promise, and the executor
\* calls functionToPromisify(...args, callback).
promisified ==
  /\ running = "idle"
  /\ promise' = [st |-> "pending", val |-> NoValue]
  /\ running' = "running"
  /\ UNCHANGED <<nCallbacks, firstCallback, lastCallback, thrownAfter>>
  /\ UNCHANGED <<throqueVars, queueVars>>

\* functionToPromisify, or what it left to run later, invokes the callback.
callback(err, data) ==
  /\ running \in {"running", "returned", "threw"}
  /\ nCallbacks < MaxCallbacks
  /\ promise' = promisifyCallback(promise, err, data)
  /\ nCallbacks' = nCallbacks + 1
  /\ firstCallback' = IF nCallbacks = 0 THEN [err |-> err, data |-> data]
                      ELSE firstCallback
  /\ lastCallback' = [err |-> err, data |-> data]
  /\ UNCHANGED <<running, thrownAfter>>
  /\ UNCHANGED <<throqueVars, queueVars>>

\* functionToPromisify returns to the executor.
functionToPromisifyReturns ==
  /\ running = "running"
  /\ running' = "returned"
  /\ UNCHANGED <<promise, nCallbacks, firstCallback, lastCallback, thrownAfter>>
  /\ UNCHANGED <<throqueVars, queueVars>>

\* functionToPromisify throws: the executor of new Promise rejects with it.
functionToPromisifyThrows ==
  /\ running = "running"
  /\ running' = "threw"
  /\ promise' = settle(promise, "rejected", value("Error"))
  /\ thrownAfter' = nCallbacks
  /\ UNCHANGED <<nCallbacks, firstCallback, lastCallback>>
  /\ UNCHANGED <<throqueVars, queueVars>>

PNext ==
  \/ promisified
  \/ \E err \in Errs, data \in Datas : callback(err, data)
  \/ functionToPromisifyReturns
  \/ functionToPromisifyThrows

PSpec == Init /\ [][PNext]_vars

\* ------------------------------------------------------------- properties
Built == {w \in Wrappers : maxConcurrentCalls[w] # 0}
Settled(p) == p.st \in {"resolved", "rejected"}

\* The invocations of functionToThrottle made for calls of w and not settled.
InFlight(w) == {c \in CallIds : caller[c] = w /\ inner[c].st = "pending"}

\* The calls of w whose execQueue activation has not finished.
ActiveOf(w) ==
  {c \in CallIds : /\ caller[c] = w
                   /\ \/ \E fr \in frames : fr.awaits = c
                      \/ \E i \in 1..Len(jobs) : jobs[i].awaits = c}

\* The calls of w waiting in the queue.
QueuedOf(w) ==
  {c \in CallIds : caller[c] = w /\ outer[c].st = "pending" /\ invoked[c] = 0}

\* The items a Queue holds, oldest first.
RECURSIVE Reverse(_)
Reverse(sq) == IF sq = <<>> THEN <<>> ELSE Append(Reverse(Tail(sq)), Head(sq))
Held(qu) == Reverse(qu.stack2) \o qu.stack1

\* C1: for a wrapped operation built with ceiling k, the invocations of the
\* underlying operation started and not yet settled never number more than k.
C1_CeilingOfWrapper ==
  \A w \in Built : Cardinality(InFlight(w)) <= maxConcurrentCalls[w]

C3_EventuallySettles ==
  \A c \in CallIds : (outer[c].st = "pending") ~> Settled(outer[c])

\* C3's case: every call was made, some had to wait, and all have settled.
C3_Witness ==
  /\ nCalls = NumCalls
  /\ Cardinality(waited) >= 2
  /\ \A c \in CallIds : Settled(outer[c])

\* C4: a call to wrapper B made while fewer than B's ceiling of B's calls are
\* active is started before throttledFunction returns, whatever the calls of
\* the other wrappers are doing.
C4_Independent ==
  [][\A c \in CallIds :
       (/\ outer[c].st = "none"
        /\ outer'[c].st # "none"
        /\ Cardinality(ActiveOf(caller'[c])) < maxConcurrentCalls[caller'[c]])
       => invoked'[c] = 1]_vars

\* C5: the ceiling enforced on the calls of a wrapper (maxCalls, which
\* execQueue compares with) is the maxConcurrentCalls it was built with.
C5_CeilingFixed ==
  \A w \in Built : maxCalls = maxConcurrentCalls[w]

\* C6: the promise of a call whose underlying operation returned a promise
\* settles as that promise did, with the same value or the same error, and it
\* has done so once the continuation of execQueue has run.
C6_Fidelity ==
  \A c \in CallIds :
    args[c] = "promise" =>
      /\ Settled(outer[c]) => outer[c] = inner[c]
      /\ (Settled(inner[c]) /\ c \notin ActiveOf(caller[c])) => outer[c] = inner[c]

\* C6's case: two calls, one resolved with 42 and one failed with E, the
\* second of them started from the queue.
C6_Witness ==
  \E c, d \in CallIds :
    /\ d \in waited
    /\ args[c] = "promise" /\ args[d] = "promise"
    /\ outer[c] = [st |-> "resolved", val |-> "42"]
    /\ outer[d] = [st |-> "rejected", val |-> "E"]

\* C7: when no continuation of execQueue is waiting to run, a wrapper with
\* calls in the queue has as many active calls as its ceiling.
C7_NoStall ==
  jobs = <<>> =>
    \A w \in Built :
      QueuedOf(w) # {} => Cardinality(ActiveOf(w)) = maxConcurrentCalls[w]

\* C8: when the continuation of execQueue runs for a call whose underlying
\* operation settled, with a value or with an error, activeCalls goes down by
\* one for it (and up by one for each call then started), the oldest queued
\* call, if any, is started, and no other call's promise gets its outcome.
C8_SettleFreesSlot ==
  [][(jobs # <<>> /\ jobs' = Tail(jobs)) =>
       LET c == Head(jobs).awaits
       IN /\ activeCalls' =
               activeCalls - 1 + Cardinality(frames') - Cardinality(frames)
          /\ outer'[c] = inner[c]
          /\ \A d \in CallIds \ {c} :
               outer'[d] # outer[d] => args[d] # "promise"
          /\ Held(callQueue) # <<>> =>
               invoked'[Held(callQueue)[1].callWhenReady.id] = 1]_vars

\* C9: a call whose underlying operation returns no promise fails with the
\* descriptive error in the step that invokes it, it keeps no slot
\* (activeCalls counts the suspended activations only), the drain step runs
\* again and starts the call queued right behind it (the call made next, if
\* one was made), and the calls queued behind it are settled in the end.
C9_NoPromise ==
  /\ [][\A c \in CallIds :
          (invoked[c] = 0 /\ invoked'[c] = 1 /\ args'[c] = "value") =>
            /\ outer'[c] = [st |-> "rejected", val |-> UsageError]
            /\ c \notin ActiveOf(caller[c])'
            /\ activeCalls' = Cardinality(frames') + Len(jobs')
            /\ c < nCalls' => invoked'[c + 1] = 1]_vars
  /\ \A c, d \in CallIds :
       (c < d /\ args[c] = "value" /\ c \in QueuedOf(caller[c])
              /\ d \in QueuedOf(caller[d]))
         ~> (outer[c] = [st |-> "rejected", val |-> UsageError]
              /\ Settled(outer[d]))

\* C9's case: a call that returned no promise waited in the queue, failed
\* with the error, and a call queued behind it has resolved.
C9_Witness ==
  \E c, d \in CallIds :
    /\ c < d
    /\ {c, d} \subseteq waited
    /\ args[c] = "value"
    /\ outer[c] = [st |-> "rejected", val |-> UsageError]
    /\ outer[d].st = "resolved"

\* The results of the dequeues that found an item.
Successful == SelectSeq(deqLog, LAMBDA v : v # undefined)

\* C10: the n-th dequeue that returns an item returns the n-th item ever
\* enqueued, the items of one enqueue counting in the order given.
C10_Fifo ==
  \A n \in 1..Len(Successful) : Successful[n] = <<enqLog[n]>>

\* C10's case: enqueues and dequeues were interleaved: items came out, and
\* both stacks hold items.
C10_Witness ==
  /\ Len(Successful) >= 2
  /\ Len(q.stack1) > 0
  /\ Len(q.stack2) > 0

\* A step that is a dequeue, and one that is an enqueue.
IsDequeue == Len(deqLog') = Len(deqLog) + 1
IsEnqueue == Len(retLog') = Len(retLog) + 1
IsCallback == nCallbacks' = nCallbacks + 1

\* C11: a dequeue of a Queue that holds nothing returns undefined and leaves
\* length at 0 and both stacks as they were.
C11_EmptyDequeue ==
  [][(IsDequeue /\ q.length = 0) =>
       /\ deqLog'[Len(deqLog')] = undefined
       /\ q'.length = 0
       /\ q'.stack1 = q.stack1
       /\ q'.stack2 = q.stack2]_vars

\* C11's case: the Queue was filled, drained, and then dequeued once more.
C11_Witness ==
  /\ Len(deqLog) >= 3
  /\ deqLog[Len(deqLog) - 2] # undefined
  /\ deqLog[Len(deqLog) - 1] # undefined
  /\ deqLog[Len(deqLog)] = undefined
  /\ q.length = 0

\* C12: length is the number of items held: those enqueued less those
\* dequeued, the sizes of the two stacks together; an enqueue adds the number
\* of values passed and returns the new length; a dequeue that finds an item
\* takes one off.
C12_LengthAccounting ==
  /\ [](/\ q.length = Len(enqLog) - Len(Successful)
        /\ q.length = Len(q.stack1) + Len(q.stack2))
  /\ [][IsEnqueue =>
          /\ q'.length = q.length + (Len(enqLog') - Len(enqLog))
          /\ retLog'[Len(retLog')] = q'.length]_vars
  /\ [][(IsDequeue /\ deqLog'[Len(deqLog')] # undefined) =>
          q'.length = q.length - 1]_vars

\* C12's case: enqueues of two items, of one and of none, and a dequeue
\* between them.
C12_Witness ==
  /\ \E i, j, k \in 1..Len(retLog) :
       /\ i < j
       /\ retLog[j] = retLog[i] + 1
       /\ k > 1 /\ retLog[k] = retLog[k - 1]
  /\ retLog[1] = 2
  /\ Len(Successful) >= 1
  /\ q.length = 2

\* C17: stack2 read from its tail backward, then stack1 read from its head
\* forward, are the items held, in the order they were enqueued.
C17_Representation ==
  Held(q) = SubSeq(enqLog, Len(Successful) + 1, Len(enqLog))

\* C17's case: items in both stacks, after dequeues and a later enqueue.
C17_Witness ==
  /\ Len(q.stack2) >= 2
  /\ Len(q.stack1) >= 1
  /\ Len(Successful) >= 1

\* C18 as stated: at most one of the two stacks holds items.
C18_OneBufferNonEmpty ==
  Len(q.stack1) = 0 \/ Len(q.stack2) = 0

\* C18 as amended: stack1 loses items only in a dequeue that finds stack2
\* empty, and then all of them: right after a transfer stack1 is empty.
C18_LazyTransfer ==
  [][Len(q'.stack1) < Len(q.stack1) =>
       /\ IsDequeue
       /\ Len(q.stack2) = 0
       /\ Len(q'.stack1) = 0
       /\ Len(q'.stack2) = Len(q.stack1) - 1]_vars

\* C18's case: a dequeue has moved several items over; stack2 holds the
\* rest and stack1 is empty.
C18_Witness ==
  /\ Len(q.stack1) = 0
  /\ Len(q.stack2) >= 2
  /\ Len(Successful) = 1
  /\ Len(enqLog) >= 3

\* The values of err that are null or empty.
NullOrEmpty == {"null", "undefined", "''"}

C14_ActiveWithinCeiling ==
  /\ activeCalls >= 0
  /\ maxCalls # undefinedMaxCalls => activeCalls <= maxCalls
  /\ \A w \in Built : Cardinality(ActiveOf(w)) <= maxConcurrentCalls[w]

\* C15: a call of wrapper w arriving while fewer than w's ceiling of w's calls
\* are active is invoked before throttledFunction returns (activeCalls goes
\* up by one if it returned a promise); a call arriving while as many as the
\* ceiling are active is queued, its promise is pending and its operation is
\* not invoked; and a queued call is invoked only in the continuation that
\* runs after a call has settled.
C15_StrictAdmission ==
  [][\A c \in CallIds :
       /\ (outer[c].st = "none" /\ outer'[c].st # "none") =>
            LET w == caller'[c]
            IN /\ Cardinality(ActiveOf(w)) < maxConcurrentCalls[w] =>
                    /\ invoked'[c] = 1
                    /\ args'[c] = "promise" => activeCalls' = activeCalls + 1
               /\ Cardinality(ActiveOf(w)) = maxConcurrentCalls[w] =>
                    /\ invoked'[c] = 0
                    /\ outer'[c] = Pending
                    /\ Held(callQueue')[Len(Held(callQueue'))].callWhenReady.id = c
       /\ (outer[c].st = "pending" /\ invoked[c] = 0 /\ invoked'[c] = 1) =>
            (jobs # <<>> /\ jobs' = Tail(jobs))]_vars

\* The entries of call c that a queue of calls holds.
EntriesOf(qu, c) ==
  {i \in 1..Len(Held(qu)) : Held(qu)[i].callWhenReady.id = c}

\* C16: a call made has one entry, in the queue until it is dequeued and
\* never after; it is dequeued, and its operation invoked, at most once, and
\* once by the time it settles; resolve or reject is called for it at most
\* once, once exactly when its promise is settled, and a settled promise
\* keeps its outcome.
C16_ConsumedOnce ==
  /\ [](\A c \in CallIds :
          /\ invoked[c] <= 1
          /\ Cardinality({i \in 1..Len(started) : started[i] = c}) = invoked[c]
          /\ Cardinality(EntriesOf(callQueue, c)) + invoked[c]
               = IF outer[c].st = "none" THEN 0 ELSE 1
          /\ settles[c] <= 1
          /\ Settled(outer[c]) <=> settles[c] = 1
          /\ Settled(outer[c]) => invoked[c] = 1)
  /\ [][\A c \in CallIds : Settled(outer[c]) => outer'[c] = outer[c]]_vars

\* C16's case: two calls waited in the queue; the first was dequeued and
\* invoked once and has settled, the second was dequeued after it and its
\* promise is pending.
C16_Witness ==
  \E c, d \in CallIds :
    /\ c < d
    /\ {c, d} \subseteq waited
    /\ invoked[c] = 1 /\ settles[c] = 1 /\ Settled(outer[c])
    /\ invoked[d] = 1 /\ settles[d] = 0 /\ outer[d] = Pending
    /\ EntriesOf(callQueue, d) = {}

\* C19: a call whose underlying operation throws when invoked fails with the
\* thrown error in the step that invokes it (reject is called once, the
\* step ends normally); it keeps no slot: activeCalls counts the suspended
\* activations only and changes by the calls newly suspended less the one
\* that finished; the call queued right behind it (the call made next, if
\* one was made) is started in the same step; and the promise of no other
\* call that returned a promise gets an outcome but its own.
C19_SyncThrow ==
  [][\A c \in CallIds :
       (invoked[c] = 0 /\ invoked'[c] = 1 /\ args'[c] = "throw") =>
         /\ outer'[c] = [st |-> "rejected", val |-> "E"]
         /\ settles'[c] = 1
         /\ c \notin ActiveOf(caller[c])'
         /\ activeCalls' = Cardinality(frames') + Len(jobs')
         /\ activeCalls' - activeCalls =
              (Cardinality(frames') + Len(jobs')) - (Cardinality(frames) + Len(jobs))
         /\ c < nCalls' => invoked'[c + 1] = 1
         /\ outer'[nCalls'].st # "none"
         /\ \A d \in CallIds \ {c} :
              (args'[d] = "promise" /\ outer'[d] # outer[d]) =>
                \/ outer[d].st = "none" /\ outer'[d] = Pending
                \/ /\ jobs # <<>> /\ Head(jobs).awaits = d
                   /\ outer'[d] = inner[d]]_vars

\* C19's case: a call that throws waited in the queue and has failed with
\* the thrown error; the call queued behind it was started and is pending.
C19_Witness ==
  \E c, d \in CallIds :
    /\ c < d
    /\ {c, d} \subseteq waited
    /\ args[c] = "throw"
    /\ outer[c] = [st |-> "rejected", val |-> "E"]
    /\ args[d] = "promise" /\ invoked[d] = 1 /\ outer[d] = Pending
====
